---- MODULE Spec2Model ----
(***************************************************************************)
(* ResearchBook (src/researchbook.py): an orchestrator that queries two    *)
(* graph databases through per-query sessions, merges the expert lists of  *)
(* the two databases by name, and asks an LLM endpoint for a summary.      *)
(*                                                                         *)
(* A Python dict is a TLA+ function whose DOMAIN is the set of keys the    *)
(* dict holds; reading a key outside the DOMAIN is Python's KeyError.      *)
(* The insertion-ordered dict `merged` is a sequence of key/value entries. *)
(* combined_score is held in units of 1/ScoreDen, so that the 0.5 weight   *)
(* of a thesis is exact in integer arithmetic.  The merge writes its new    *)
(* keys into the records it was handed; db1_experts and db2_experts keep   *)
(* the records as they were passed in, all_experts holds the written ones. *)
(***************************************************************************)
EXTENDS Integers, Sequences, FiniteSets, TLC

\* ---- bounds of the model ------------------------------------------------
MaxLen == 2
MaxCount == 2
MaxOps == 2

\* ---- program constants ---------------------------------------------------
ScoreDen == 2
ThesisWeight == 1
HttpOk == 200

Names == {"A", "B"}
Queries == {"q"}
Counts == 1..MaxCount
DBs == {"db1", "db2"}

\* ---- Python dicts ----------------------------------------------------------
HasKey(d, k) == k \in DOMAIN d

SetKey(d, k, v) == (k :> v) @@ d

DictHas(m, k) == \E i \in 1..Len(m) : m[i].key = k

DictIndex(m, k) == CHOOSE i \in 1..Len(m) : m[i].key = k

DictGet(m, k) == m[DictIndex(m, k)].value

\* a plausible slip: every assignment appends, so a repeated key is kept twice
DictPutAppend(m, k, v) == Append(m, [key |-> k, value |-> v])

DictPut(m, k, v) ==
    IF DictHas(m, k)
    THEN [m EXCEPT ![DictIndex(m, k)] = [key |-> k, value |-> v]]
    ELSE Append(m, [key |-> k, value |-> v])

DictValues(m) == [i \in 1..Len(m) |-> m[i].value]

\* ---- scores ----------------------------------------------------------------
PubScore(n) == n * ScoreDen

ThesisScore(n) == n * ThesisWeight

\* ---- the records the adapters build -----------------------------------------
Db1Expert(n, c) ==
    [name |-> n, orcid_id |-> "id", relevant_publications |-> c,
     sample_publications |-> <<"P">>, organizations |-> <<"O">>,
     departments |-> <<"D">>, source |-> "database_1"]

Db2Expert(n, c) ==
    [name |-> n, roles |-> <<"R">>, relevant_theses |-> c,
     sample_theses |-> <<"T">>, source |-> "database_2"]

\* the records of the documented merge scenarios: the name and the count only
Db1Bare(n, c) == [name |-> n, relevant_publications |-> c]

Db2Bare(n, c) == [name |-> n, relevant_theses |-> c]

\* ---- _merge_expert_results ----------------------------------------------------
RECURSIVE MergeDb1(_, _)
MergeDb1(merged, experts) ==
    IF experts = <<>> THEN [raised |-> FALSE, merged |-> merged]
    ELSE LET expert == Head(experts) IN
         IF ~ HasKey(expert, "name") \/ ~ HasKey(expert, "relevant_publications")
         THEN [raised |-> TRUE, merged |-> merged]
         ELSE MergeDb1(DictPut(merged, expert.name,
                               SetKey(expert, "combined_score",
                                      PubScore(expert.relevant_publications))),
                       Tail(experts))

MergeBoth(old, expert) ==
    LET e1 == SetKey(old, "thesis_roles", expert.roles)
        e2 == SetKey(e1, "relevant_theses", expert.relevant_theses)
        e3 == SetKey(e2, "sample_theses", expert.sample_theses)
        e4 == SetKey(e3, "combined_score",
                     old.combined_score + ThesisScore(expert.relevant_theses))
    IN  SetKey(e4, "source", "both_databases")

RECURSIVE MergeDb2(_, _)
MergeDb2(merged, experts) ==
    IF experts = <<>> THEN [raised |-> FALSE, merged |-> merged]
    ELSE LET expert == Head(experts) IN
         IF ~ HasKey(expert, "name") THEN [raised |-> TRUE, merged |-> merged]
         ELSE IF DictHas(merged, expert.name)
         THEN IF ~ ({"roles", "relevant_theses", "sample_theses"} \subseteq DOMAIN expert)
              THEN [raised |-> TRUE, merged |-> merged]
              ELSE MergeDb2(DictPut(merged, expert.name,
                                    MergeBoth(DictGet(merged, expert.name), expert)),
                            Tail(experts))
         ELSE IF ~ HasKey(expert, "relevant_theses")
              THEN [raised |-> TRUE, merged |-> merged]
              ELSE MergeDb2(DictPut(merged, expert.name,
                                    SetKey(expert, "combined_score",
                                           ThesisScore(expert.relevant_theses))),
                            Tail(experts))

\* sorted(values, key=combined_score, reverse=True): a stable sort, so an entry
\* goes behind every entry already placed whose score is not smaller
InsertDesc(sorted, x) ==
    LET ahead == {i \in 1..Len(sorted) : sorted[i].combined_score >= x.combined_score}
        k == IF ahead = {} THEN 0 ELSE CHOOSE i \in ahead : \A j \in ahead : j <= i
    IN  SubSeq(sorted, 1, k) \o <<x>> \o SubSeq(sorted, k + 1, Len(sorted))

RECURSIVE SortFrom(_, _)
SortFrom(sorted, rest) ==
    IF rest = <<>> THEN sorted ELSE SortFrom(InsertDesc(sorted, Head(rest)), Tail(rest))

\* a plausible slip: the values are returned as the dict holds them, unsorted
SortedNone(values) == values

\* a plausible slip: sorted(...)[::-1] in place of reverse=True; the scores still
\* descend, but entries of equal score come out in the reverse of their order
RECURSIVE Reverse(_)
Reverse(s) == IF s = <<>> THEN <<>> ELSE Append(Reverse(Tail(s)), Head(s))

SortedAscReversed(values) == SortFrom(<<>>, Reverse(values))

SortedByScoreDesc(values) == SortFrom(<<>>, values)

MergeExpertResults(db1, db2) ==
    LET r1 == MergeDb1(<<>>, db1) IN
    IF r1.raised THEN [raised |-> TRUE, value |-> <<>>]
    ELSE LET r2 == MergeDb2(r1.merged, db2) IN
         IF r2.raised THEN [raised |-> TRUE, value |-> <<>>]
         ELSE [raised |-> FALSE, value |-> SortedByScoreDesc(DictValues(r2.merged))]

\* ---- the rows a database can return ------------------------------------------
SeqUpTo(S, n) == UNION {[1..k -> S] : k \in 0..n}

Profile(n) ==
    [name |-> n, orcid_id |-> "id", given_names |-> "g", family_name |-> "f",
     orcid_publication_count |-> 1, total_publications |-> 1, affiliations |-> <<>>]

Activity(n) ==
    [person_name |-> n, role |-> "R", thesis_title |-> "T", thesis_type |-> "M",
     keywords |-> <<>>, abstract |-> ""]

ProfileRows == {[i \in 1..Len(s) |-> Profile(s[i])] : s \in SeqUpTo(Names, MaxLen)}

ActivityRows == {[i \in 1..Len(s) |-> Activity(s[i])] : s \in SeqUpTo(Names, MaxLen)}

\* ORDER BY relevant_pubs DESC / relevant_theses DESC, LIMIT $limit
CountDesc(s) == \A i \in 1..(Len(s) - 1) : s[i][2] >= s[i + 1][2]

RankedPairs == {s \in SeqUpTo(Names \X Counts, MaxLen) : CountDesc(s)}

Db1ExpertRows == {[i \in 1..Len(s) |-> Db1Expert(s[i][1], s[i][2])] : s \in RankedPairs}

Db2ExpertRows == {[i \in 1..Len(s) |-> Db2Expert(s[i][1], s[i][2])] : s \in RankedPairs}

RowsOf(o, db) ==
    IF o = "lookup_person"
    THEN IF db = "db1" THEN ProfileRows ELSE ActivityRows
    ELSE IF db = "db1" THEN Db1ExpertRows ELSE Db2ExpertRows

\* ---- the graph query adapters ---------------------------------------------------
\* a plausible slip: the adapter catches the error and hands back no rows, as
\* test_database of identify_databases.py does
GraphQuerySwallow(ok, rows) == [raised |-> FALSE, rows |-> IF ok THEN rows ELSE <<>>]

\* session.run and the iteration over its result raise inside the with block;
\* nothing catches, so the error leaves the adapter
GraphQuery(ok, rows) ==
    IF ok THEN [raised |-> FALSE, rows |-> rows] ELSE [raised |-> TRUE, rows |-> <<>>]

\* a plausible slip: the session is closed on the success path only
SessionReleasedOnSuccess(raised) == ~ raised

\* `with driver.session(...) as session:` closes the session on every exit
SessionReleased(raised) == TRUE

\* a plausible slip: the second query is skipped
NextStepDb1Only(db) == "combine"

\* the database-1 query, then the database-2 query, then the combination
NextStep(db) == IF db = "db1" THEN "db2" ELSE "combine"

\* ---- ai_query ------------------------------------------------------------------
MalformedBodies == {"no_choices", "not_json"}

Responses ==
    {[kind |-> "http", status |-> HttpOk, body |-> "summary"],
     [kind |-> "http", status |-> HttpOk, body |-> "no_choices"],
     [kind |-> "http", status |-> HttpOk, body |-> "not_json"],
     [kind |-> "http", status |-> 500, body |-> ""],
     [kind |-> "timeout", status |-> 0, body |-> ""],
     [kind |-> "connection_error", status |-> 0, body |-> ""]}

NoResponse == [kind |-> "none", status |-> 0, body |-> ""]

LlmFailed(resp) ==
    \/ resp.kind \in {"timeout", "connection_error"}
    \/ resp.kind = "http" /\ resp.status # HttpOk
    \/ resp.kind = "http" /\ resp.status = HttpOk /\ resp.body \in MalformedBodies

\* a plausible slip: no try/except around the request, so an exception escapes
AiQueryNoCatch(resp) ==
    IF resp.kind # "http" THEN [raised |-> TRUE, text |-> <<>>]
    ELSE IF resp.status = HttpOk
         THEN IF resp.body \in MalformedBodies
              THEN [raised |-> TRUE, text |-> <<>>]
              ELSE [raised |-> FALSE, text |-> <<resp.body>>]
         ELSE [raised |-> FALSE, text |-> <<"AI Error: ", ToString(resp.status)>>]

\* f"AI Error: {x}" is the pair of its prefix and str(x)
AiQuery(resp) ==
    IF resp.kind # "http" THEN [raised |-> FALSE, text |-> <<"AI Error: ", resp.kind>>]
    ELSE IF resp.status = HttpOk
         THEN IF resp.body \in MalformedBodies
              THEN [raised |-> FALSE, text |-> <<"AI Error: ", resp.body>>]
              ELSE [raised |-> FALSE, text |-> <<resp.body>>]
         ELSE [raised |-> FALSE, text |-> <<"AI Error: ", ToString(resp.status)>>]

\* ---- the orchestrator's decisions -------------------------------------------------
NotFoundMessage == <<"Person not found in either database">>

NoExpertsMessage(topic) == <<"No experts found for topic: ", topic>>

\* a plausible slip: the summary is requested whatever the databases returned
ShouldAnalyzeAlways(found1, found2) == TRUE

ShouldAnalyze(found1, found2) == found1 \/ found2

ShouldRank(experts) == Len(experts) > 0

PersonResult(name, p1, p2, ai) ==
    [kind |-> "person", name |-> name,
     found_in_db1 |-> Len(p1) > 0, found_in_db2 |-> Len(p2) > 0,
     researcher_data |-> p1, thesis_data |-> p2, ai_analysis |-> ai]

ExpertResult(topic, e1, e2, all, ai) ==
    [kind |-> "experts", topic |-> topic, experts_found |-> Len(all),
     db1_matches |-> Len(e1), db2_matches |-> Len(e2),
     expert_list |-> all, ai_ranking |-> ai]

NoResult == [kind |-> "none"]

\* ---- state ----------------------------------------------------------------------
VARIABLES
    op,             \* the public operation in progress or last finished
    arg,            \* its name or topic argument
    pc,             \* position in the operation: idle, open, run, close, combine, ai
    cur,            \* the database whose adapter is running
    exc,            \* an exception is propagating out of the adapter
    open_sessions,  \* database -> sessions acquired and not yet released
    query,          \* database -> not_started, pending, returned, failed (this operation)
    db1_profile, db2_profile,   \* lookup_person's adapter results
    db1_experts, db2_experts,   \* find_expert's adapter results, the merge's inputs
    all_experts,    \* the merged list
    llm_requests,   \* requests posted to the LLM endpoint by this operation
    llm_response,   \* what the endpoint did with the last request
    result,         \* the object returned to the caller
    outcome,        \* none, running, returned, raised
    ops_done,       \* operations finished so far
    failed_before   \* an earlier operation on this orchestrator raised

vars == <<op, arg, pc, cur, exc, open_sessions, query, db1_profile, db2_profile,
          db1_experts, db2_experts, all_experts, llm_requests, llm_response,
          result, outcome, ops_done, failed_before>>

NoQueries == [d \in DBs |-> "not_started"]

NoSessions == [d \in DBs |-> 0]

Init ==
    /\ op = "none" /\ arg = "" /\ pc = "idle" /\ cur = "none" /\ exc = FALSE
    /\ open_sessions = NoSessions /\ query = NoQueries
    /\ db1_profile = <<>> /\ db2_profile = <<>>
    /\ db1_experts = <<>> /\ db2_experts = <<>> /\ all_experts = <<>>
    /\ llm_requests = 0 /\ llm_response = NoResponse
    /\ result = NoResult /\ outcome = "none"
    /\ ops_done = 0 /\ failed_before = FALSE

\* a public operation is entered: every local of the previous call is gone
Enter(o, a) ==
    /\ pc = "idle" /\ ops_done < MaxOps
    /\ op' = o /\ arg' = a /\ pc' = "open" /\ cur' = "db1" /\ exc' = FALSE
    /\ query' = NoQueries
    /\ db1_profile' = <<>> /\ db2_profile' = <<>>
    /\ db1_experts' = <<>> /\ db2_experts' = <<>> /\ all_experts' = <<>>
    /\ llm_requests' = 0 /\ llm_response' = NoResponse
    /\ result' = NoResult /\ outcome' = "running"
    /\ failed_before' = (failed_before \/ outcome = "raised")
    /\ UNCHANGED <<open_sessions, ops_done>>

CallLookupPerson == \E name \in Queries : Enter("lookup_person", name)

CallFindExpert == \E topic \in Queries : Enter("find_expert", topic)

\* the operation ends: with the returned object, or with the exception
Finish(how, value) ==
    /\ pc' = "idle" /\ cur' = "none" /\ exc' = FALSE
    /\ outcome' = how /\ result' = value
    /\ ops_done' = ops_done + 1

\* with self.dbN_driver.session(database="neo4j") as session:
OpenSession ==
    /\ pc = "open"
    /\ open_sessions' = [open_sessions EXCEPT ![cur] = @ + 1]
    /\ query' = [query EXCEPT ![cur] = "pending"]
    /\ pc' = "run"
    /\ UNCHANGED <<op, arg, cur, exc, db1_profile, db2_profile, db1_experts,
                   db2_experts, all_experts, llm_requests, llm_response, result,
                   outcome, ops_done, failed_before>>

\* the adapter's result lands in the caller's local once the adapter returns
Store(rows) ==
    /\ db1_profile' = IF op = "lookup_person" /\ cur = "db1" THEN rows ELSE db1_profile
    /\ db2_profile' = IF op = "lookup_person" /\ cur = "db2" THEN rows ELSE db2_profile
    /\ db1_experts' = IF op = "find_expert" /\ cur = "db1" THEN rows ELSE db1_experts
    /\ db2_experts' = IF op = "find_expert" /\ cur = "db2" THEN rows ELSE db2_experts

\* session.run and the loop over the records, all rows mapped
QueryReturns ==
    /\ pc = "run"
    /\ \E rows \in RowsOf(op, cur) :
         LET r == GraphQuery(TRUE, rows) IN
         /\ exc' = r.raised
         /\ Store(r.rows)
    /\ query' = [query EXCEPT ![cur] = "returned"]
    /\ pc' = "close"
    /\ UNCHANGED <<op, arg, cur, open_sessions, all_experts, llm_requests,
                   llm_response, result, outcome, ops_done, failed_before>>

\* session.run or the loop over the records raises: connectivity,
\* authentication or query error
QueryFails ==
    /\ pc = "run"
    /\ LET r == GraphQuery(FALSE, <<>>) IN
         /\ exc' = r.raised
         /\ Store(r.rows)
    /\ query' = [query EXCEPT ![cur] = "failed"]
    /\ pc' = "close"
    /\ UNCHANGED <<op, arg, cur, open_sessions, all_experts, llm_requests,
                   llm_response, result, outcome, ops_done, failed_before>>

\* the with block is left: the session is released, then the adapter returns
\* its list to the operation or the exception goes on to the operation's caller
CloseSession ==
    /\ pc = "close"
    /\ open_sessions' = IF SessionReleased(exc)
                        THEN [open_sessions EXCEPT ![cur] = @ - 1]
                        ELSE open_sessions
    /\ IF exc
       THEN /\ Finish("raised", NoResult)
            /\ UNCHANGED <<op, arg, query, db1_profile, db2_profile, db1_experts,
                           db2_experts, all_experts, llm_requests, llm_response,
                           failed_before>>
       ELSE /\ IF NextStep(cur) = "combine"
               THEN pc' = "combine" /\ cur' = "none"
               ELSE pc' = "open" /\ cur' = NextStep(cur)
            /\ UNCHANGED <<op, arg, exc, query, db1_profile, db2_profile,
                           db1_experts, db2_experts, all_experts, llm_requests,
                           llm_response, result, outcome, ops_done, failed_before>>

\* lookup_person, after both adapters: the found flags and the choice of the
\* AI summary or the fixed message
LookupCombine ==
    /\ pc = "combine" /\ op = "lookup_person"
    /\ IF ShouldAnalyze(Len(db1_profile) > 0, Len(db2_profile) > 0)
       THEN /\ pc' = "ai"
            /\ UNCHANGED <<cur, exc, result, outcome, ops_done>>
       ELSE Finish("returned",
                   PersonResult(arg, db1_profile, db2_profile, NotFoundMessage))
    /\ UNCHANGED <<op, arg, open_sessions, query, db1_profile, db2_profile,
                   db1_experts, db2_experts, all_experts, llm_requests,
                   llm_response, failed_before>>

\* find_expert, after both adapters: the merge and the choice of the AI ranking
\* or the fixed message
FindMerge ==
    /\ pc = "combine" /\ op = "find_expert"
    /\ LET m == MergeExpertResults(db1_experts, db2_experts) IN
         IF m.raised
         THEN /\ Finish("raised", NoResult)
              /\ UNCHANGED all_experts
         ELSE /\ all_experts' = m.value
              /\ IF ShouldRank(m.value)
                 THEN /\ pc' = "ai"
                      /\ UNCHANGED <<cur, exc, result, outcome, ops_done>>
                 ELSE Finish("returned",
                             ExpertResult(arg, db1_experts, db2_experts, m.value,
                                          NoExpertsMessage(arg)))
    /\ UNCHANGED <<op, arg, open_sessions, query, db1_profile, db2_profile,
                   db1_experts, db2_experts, llm_requests, llm_response,
                   failed_before>>

\* ai_query: one request is posted, and the operation returns its object
AskLlm ==
    /\ pc = "ai"
    /\ \E resp \in Responses :
         LET r == AiQuery(resp) IN
         /\ llm_response' = resp
         /\ IF r.raised
            THEN Finish("raised", NoResult)
            ELSE Finish("returned",
                        IF op = "lookup_person"
                        THEN PersonResult(arg, db1_profile, db2_profile, r.text)
                        ELSE ExpertResult(arg, db1_experts, db2_experts,
                                          all_experts, r.text))
    /\ llm_requests' = llm_requests + 1
    /\ UNCHANGED <<op, arg, open_sessions, query, db1_profile, db2_profile,
                   db1_experts, db2_experts, all_experts, failed_before>>

Next ==
    \/ CallLookupPerson
    \/ CallFindExpert
    \/ OpenSession
    \/ QueryReturns
    \/ QueryFails
    \/ CloseSession
    \/ LookupCombine
    \/ FindMerge
    \/ AskLlm

Spec == Init /\ [][Next]_vars

\* ---- _merge_expert_results called on its own -------------------------------------
\* any two lists, in any order, of adapter-built or of bare records
AnyPairs == SeqUpTo(Names \X Counts, MaxLen)

Db1Inputs(bare) ==
    {[i \in 1..Len(s) |-> IF bare THEN Db1Bare(s[i][1], s[i][2])
                                  ELSE Db1Expert(s[i][1], s[i][2])] : s \in AnyPairs}

Db2Inputs(bare) ==
    {[i \in 1..Len(s) |-> IF bare THEN Db2Bare(s[i][1], s[i][2])
                                  ELSE Db2Expert(s[i][1], s[i][2])] : s \in AnyPairs}

MergeInit ==
    /\ op = "merge" /\ arg = "" /\ pc = "merge" /\ cur = "none" /\ exc = FALSE
    /\ open_sessions = NoSessions /\ query = NoQueries
    /\ db1_profile = <<>> /\ db2_profile = <<>>
    /\ \E bare \in BOOLEAN :
         /\ db1_experts \in Db1Inputs(bare)
         /\ db2_experts \in Db2Inputs(bare)
    /\ all_experts = <<>>
    /\ llm_requests = 0 /\ llm_response = NoResponse
    /\ result = NoResult /\ outcome = "running"
    /\ ops_done = 0 /\ failed_before = FALSE

MergeCall ==
    /\ pc = "merge"
    /\ LET m == MergeExpertResults(db1_experts, db2_experts) IN
         /\ all_experts' = m.value
         /\ outcome' = IF m.raised THEN "raised" ELSE "returned"
    /\ pc' = "merged"
    /\ UNCHANGED <<op, arg, cur, exc, open_sessions, query, db1_profile,
                   db2_profile, db1_experts, db2_experts, llm_requests,
                   llm_response, result, ops_done, failed_before>>

MergeNext == MergeCall

MergeSpec == MergeInit /\ [][MergeNext]_vars

\* ---- what the claims speak about ----------------------------------------------------
NamesOf(s) == {s[i].name : i \in 1..Len(s)}

Max(a, b) == IF a >= b THEN a ELSE b

\* the merge was called and has ended, by returning or by raising
MergeEnded ==
    \/ op = "merge" /\ pc = "merged"
    \/ op = "find_expert" /\ (pc = "ai" \/ (pc = "idle" /\ query["db2"] = "returned"))

\* the merge was called and has returned its list, held in all_experts
MergeReturned ==
    \/ op = "merge" /\ pc = "merged" /\ outcome = "returned"
    \/ op = "find_expert" /\ (pc = "ai" \/ (pc = "idle" /\ outcome = "returned"))

EntriesOf(n) == {i \in 1..Len(all_experts) : all_experts[i].name = n}

\* position of the first record that carries name n in db1_experts followed by
\* db2_experts: the order in which the names enter the merge mapping
FirstPos(n) ==
    LET both == [i \in 1..(Len(db1_experts) + Len(db2_experts)) |->
                   IF i <= Len(db1_experts) THEN db1_experts[i].name
                   ELSE db2_experts[i - Len(db1_experts)].name]
        at == {i \in 1..Len(both) : both[i] = n}
    IN  CHOOSE i \in at : \A j \in at : i <= j

\* C1 (as claimed): once the merge has ended, every name that occurs in both
\* input lists appears exactly once in the output, tagged "both_databases", with
\* combined_score = relevant_publications + 0.5 * relevant_theses of a db1 record
\* and a db2 record of that name (scores are in units of 1/ScoreDen).
C1_BothOnceTaggedScored ==
    MergeEnded =>
      \A n \in NamesOf(db1_experts) \cap NamesOf(db2_experts) :
        /\ MergeReturned
        /\ Cardinality(EntriesOf(n)) = 1
        /\ \A i \in EntriesOf(n) :
             /\ HasKey(all_experts[i], "source")
             /\ all_experts[i].source = "both_databases"
             /\ \E j \in 1..Len(db1_experts), k \in 1..Len(db2_experts) :
                  /\ db1_experts[j].name = n /\ db2_experts[k].name = n
                  /\ 2 * all_experts[i].combined_score =
                       ScoreDen * (2 * db1_experts[j].relevant_publications
                                   + db2_experts[k].relevant_theses)

\* C2 (as claimed): the returned list is at least max(|db1|, |db2|) long and at
\* most |db1| + |db2| long.
C2_LengthBetweenMaxAndSum ==
    MergeReturned =>
      /\ Len(all_experts) >= Max(Len(db1_experts), Len(db2_experts))
      /\ Len(all_experts) <= Len(db1_experts) + Len(db2_experts)

\* C2 (amended): the returned list holds one entry per distinct name of the two
\* inputs; so it is at most |db1| + |db2| long, at least as long as the larger
\* number of distinct names of one input, and at least max(|db1|, |db2|) long
\* when no name repeats within either input.
C2_LengthIsDistinctNames ==
    MergeReturned =>
      LET n1 == NamesOf(db1_experts)
          n2 == NamesOf(db2_experts)
      IN  /\ Len(all_experts) = Cardinality(n1 \cup n2)
          /\ NamesOf(all_experts) = n1 \cup n2
          /\ Len(all_experts) <= Len(db1_experts) + Len(db2_experts)
          /\ Len(all_experts) >= Max(Cardinality(n1), Cardinality(n2))
          /\ (Cardinality(n1) = Len(db1_experts) /\ Cardinality(n2) = Len(db2_experts)
                => Len(all_experts) >= Max(Len(db1_experts), Len(db2_experts)))

\* C2 witness: the merge returned fewer entries than its longer input holds,
\* because a name repeats within that input.
C2_Witness ==
    /\ op = "merge" /\ MergeReturned
    /\ Len(db2_experts) > Cardinality(NamesOf(db2_experts))
    /\ Len(all_experts) < Max(Len(db1_experts), Len(db2_experts))

\* C3: the returned list is ordered by combined_score descending: no entry has a
\* smaller score than the entry after it.
C3_SortedDescending ==
    MergeReturned =>
      \A i \in 1..(Len(all_experts) - 1) :
        all_experts[i].combined_score >= all_experts[i + 1].combined_score

\* C3 witness: the merge returned a list whose first entry is not the name that
\* entered the mapping first, so the sort moved a higher score forward.
C3_Witness ==
    /\ op = "merge" /\ MergeReturned
    /\ Len(all_experts) >= 2
    /\ FirstPos(all_experts[1].name) > FirstPos(all_experts[2].name)
    /\ all_experts[1].combined_score > all_experts[2].combined_score

\* C4 (as claimed): the merge of the inputs ends without a missing-field error,
\* and a name only in db1 has combined_score = relevant_publications and source
\* "database_1", a name only in db2 has combined_score = 0.5 * relevant_theses
\* and source "database_2" (scores are in units of 1/ScoreDen).
C4_SingleSourceTaggedScored ==
    MergeEnded =>
      /\ MergeReturned
      /\ \A i \in 1..Len(all_experts) :
           LET e == all_experts[i] IN
           /\ (e.name \notin NamesOf(db2_experts) =>
                 /\ HasKey(e, "source") /\ e.source = "database_1"
                 /\ e.combined_score = ScoreDen * e.relevant_publications)
           /\ (e.name \notin NamesOf(db1_experts) =>
                 /\ HasKey(e, "source") /\ e.source = "database_2"
                 /\ 2 * e.combined_score = ScoreDen * e.relevant_theses)

\* C5: the LLM is contacted only when the databases returned data: a
\* lookup_person whose two results are empty returns both found flags false and
\* the fixed not-found message, a find_expert whose merged list is empty returns
\* experts_found = 0 and the fixed no-experts message, and in both cases the
\* operation has sent no request to the LLM endpoint.
C5_NoDataNoLlmRequest ==
    /\ (llm_requests > 0 /\ op = "lookup_person"
          => db1_profile # <<>> \/ db2_profile # <<>>)
    /\ (llm_requests > 0 /\ op = "find_expert"
          => db1_experts # <<>> \/ db2_experts # <<>>)
    /\ (pc = "idle" /\ outcome = "returned" /\ op = "lookup_person"
          /\ db1_profile = <<>> /\ db2_profile = <<>>
          => /\ result.found_in_db1 = FALSE /\ result.found_in_db2 = FALSE
             /\ result.ai_analysis = <<"Person not found in either database">>
             /\ llm_requests = 0)
    /\ (pc = "idle" /\ outcome = "returned" /\ op = "find_expert"
          /\ all_experts = <<>>
          => /\ result.experts_found = 0
             /\ result.ai_ranking = <<"No experts found for topic: ", arg>>
             /\ llm_requests = 0)

\* C5 witness: lookup_person has returned after both databases answered with no
\* rows.
C5_Witness ==
    /\ pc = "idle" /\ outcome = "returned" /\ op = "lookup_person"
    /\ query["db1"] = "returned" /\ query["db2"] = "returned"
    /\ db1_profile = <<>> /\ db2_profile = <<>>

\* C6: when both queries of lookup_person succeeded with data and the LLM
\* request failed (non-200 status, timeout or transport error, or a 200 body
\* without choices[0].message.content), lookup_person raises nothing and returns
\* the databases' records as researcher_data and thesis_data with an ai_analysis
\* that starts with "AI Error:".
C6_LlmFailureIsTagged ==
    (pc = "idle" /\ op = "lookup_person" /\ llm_requests > 0 /\ LlmFailed(llm_response))
      => /\ outcome = "returned"
         /\ result.researcher_data = db1_profile
         /\ result.thesis_data = db2_profile
         /\ Len(result.ai_analysis) = 2
         /\ result.ai_analysis[1] = "AI Error: "

\* C6 witness: lookup_person has returned after both databases gave records and
\* the LLM endpoint answered HTTP 500.
C6_Witness ==
    /\ pc = "idle" /\ op = "lookup_person" /\ outcome = "returned"
    /\ db1_profile # <<>> /\ db2_profile # <<>>
    /\ llm_response.kind = "http" /\ llm_response.status = 500

\* C7: an operation one of whose graph queries failed ends by raising to its
\* caller and hands back no result object (so never the not-found or no-experts
\* object), and an operation that follows a failed one returns the object its
\* own queries determine.
C7_DbFailureSurfaces ==
    /\ ((\E d \in DBs : query[d] = "failed") =>
          /\ outcome # "returned"
          /\ result = NoResult
          /\ (pc = "idle" => outcome = "raised"))
    /\ (failed_before /\ pc = "idle" /\ outcome = "returned" /\ op = "lookup_person"
          => /\ result.researcher_data = db1_profile
             /\ result.thesis_data = db2_profile
             /\ result.found_in_db1 = (db1_profile # <<>>)
             /\ result.found_in_db2 = (db2_profile # <<>>))
    /\ (failed_before /\ pc = "idle" /\ outcome = "returned" /\ op = "find_expert"
          => /\ result.expert_list = all_experts
             /\ result.db1_matches = Len(db1_experts)
             /\ result.db2_matches = Len(db2_experts))

\* C7 witness: an operation raised on a failed database-2 query after an
\* earlier operation had raised as well, with the sessions all released.
C7_Witness ==
    /\ pc = "idle" /\ outcome = "raised" /\ failed_before
    /\ query["db1"] = "returned" /\ query["db2"] = "failed"

\* C8: a request goes to the LLM only after both graph queries of the operation
\* have returned: never while one is pending or not yet started, never after one
\* has failed.
C8_LlmAfterBothQueries ==
    (pc = "ai" \/ llm_requests > 0) =>
      /\ query["db1"] = "returned" /\ query["db2"] = "returned"
      /\ open_sessions = NoSessions

\* C8 witness: find_expert has sent its request to the LLM.
C8_Witness ==
    /\ op = "find_expert" /\ llm_requests = 1
    /\ query["db1"] = "returned" /\ query["db2"] = "returned"

\* C9: every query runs in a session of its own that is released when the query
\* ends, by returning or by raising: no session is open when an operation
\* returns or propagates its error, nor between the queries, and at most one
\* session is open at any time.
C9_SessionsScoped ==
    /\ (pc \in {"idle", "open", "combine", "ai"} => open_sessions = NoSessions)
    /\ (pc \in {"run", "close"} =>
          open_sessions = [d \in DBs |-> IF d = cur THEN 1 ELSE 0])
    /\ open_sessions["db1"] + open_sessions["db2"] <= 1

\* C9 witness: an operation has propagated the error of its database-1 query and
\* no session is open.
C9_Witness ==
    /\ pc = "idle" /\ outcome = "raised" /\ query["db1"] = "failed"
    /\ open_sessions = NoSessions

\* C10: entries of equal combined_score keep the order in which their names
\* entered the merge mapping (db1 names in input order, then the names only in
\* db2 in input order), so with the descending scores the order of the output
\* is fixed by the inputs.
C10_TiesInInsertionOrder ==
    MergeReturned =>
      \A i \in 1..Len(all_experts), j \in 1..Len(all_experts) :
        i < j =>
          \/ all_experts[i].combined_score > all_experts[j].combined_score
          \/ /\ all_experts[i].combined_score = all_experts[j].combined_score
             /\ FirstPos(all_experts[i].name) < FirstPos(all_experts[j].name)

\* C10 witness: the merge returned two entries of equal score, the earlier one a
\* db1 name and the later one a name only in db2.
C10_Witness ==
    /\ op = "merge" /\ MergeReturned
    /\ \E i \in 1..Len(all_experts), j \in 1..Len(all_experts) :
         /\ i < j
         /\ all_experts[i].combined_score = all_experts[j].combined_score
         /\ all_experts[i].name \in NamesOf(db1_experts)
         /\ all_experts[j].name \notin NamesOf(db1_experts)
====
